---- MODULE Spec2Model ----
(***************************************************************************)
(* A model of the streaming chat client: the abortable response iterator   *)
(* (utils.ts), the chat invokers runLLM / runLLMChat and the drafts of the  *)
(* context-threading orchestrator contextedChat (logger.ts, runLLM.ts),    *)
(* with the history store they write to.                                   *)
(*                                                                         *)
(* The inference server and the sqlite file are the environment: at every  *)
(* pull the source answers with a chunk, with its end, or by throwing, and *)
(* every store statement either runs or throws.                            *)
(***************************************************************************)
EXTENDS Integers, Sequences, FiniteSets, TLC

\* ---------------------------------------------------------------- bounds
\* The number of chunks the server sends in one run, over all its streams.
MaxChunks == 3
\* The number of invocations made one after the other on the same store.
MaxInvocations == 2

\* ---------------------------------------------------------------- chunks
\* A key that the JSON object does not carry.
Absent == "absent"

\* message.content of a chunk: a string, as the sequence of its characters.
Contents == {<<>>, <<"a">>, <<"b">>}

\* The messages of the server's error payloads.
ErrorMessages == {"model not found", "overloaded"}

\* A chat chunk: {message: {role: 'assistant', content}, done}.
ChatChunks ==
  [error : {Absent}, done : BOOLEAN, status : {Absent}, content : Contents]

\* A progress chunk (pull, push, create): {status}.
ProgressChunks ==
  [error : {Absent}, done : {FALSE}, status : {"pulling", "success"},
   content : {<<>>}]

\* An error payload: {error: string}.
ErrorChunks ==
  [error : ErrorMessages, done : {FALSE}, status : {Absent}, content : {<<>>}]

\* The value of a variable that holds no chunk.
NoChunk ==
  [error |-> Absent, done |-> FALSE, status |-> "nochunk", content |-> <<>>]

\* 'error' in message
HasError(c) == c.error # Absent

\* (message as any).done || (message as any).status === 'success'
IsTerminalMutantDoneOnly(c) == c.done
IsTerminal(c) == c.done \/ c.status = "success"

\* The message of the error thrown when the source ends too early.
IncompleteMessage == "Did not receive done or success response in stream."

\* ----------------------------------------------- what the source answers
\* One answer of the underlying AsyncGenerator to next(): a chunk, the end
\* of the stream, or an exception (the transport failed, or the request was
\* aborted and the source honours it).
ChunkResponse(c) == [type |-> "chunk", chunk |-> c]
EndResponse == [type |-> "end", chunk |-> NoChunk]
ThrowResponse == [type |-> "throw", chunk |-> NoChunk]

\* -------------------------------------------- AbortableAsyncIterator
\* The iterator object and the generator of its [Symbol.asyncIterator]():
\*   gen        where the generator stands: "start" (not yet run),
\*              "yielded" (suspended at the yield, holding `held`),
\*              "finished" (returned or threw)
\*   pulls      the number of next() calls made on the underlying source
\*   closed     the for await over the source was left, which closed it
\*   delivered  the chunks yielded to the consumer, in order
\*   cb         the number of calls of doneCallback
\*   outcome    how the generator finished: "done" (returned after the
\*              terminal chunk), "error" (error payload), "incomplete"
\*              (source ended), "srcfail" (the source threw), "returned"
\*              (the consumer left the loop), "none" (still running)
\*   err        the message of the error thrown to the consumer
\*   aborted    abortController.signal.aborted
\*   abortAt    history: Len(delivered) when abort() was called, -1 before
NewIterator ==
  [gen |-> "start", held |-> NoChunk, pulls |-> 0, closed |-> FALSE,
   delivered |-> <<>>, cb |-> 0, outcome |-> "none", err |-> "",
   aborted |-> FALSE, abortAt |-> -1]

\* abort() { this.abortController.abort() }
Abort(i) ==
  [i EXCEPT !.aborted = TRUE,
            !.abortAt = IF @ = -1 THEN Len(i.delivered) ELSE @]

\* The generator finishes: by return or by throw.
Finish(i, how, msg) ==
  [i EXCEPT !.gen = "finished", !.held = NoChunk, !.outcome = how,
            !.err = msg, !.closed = TRUE]

\* The loop of the generator takes the source's answer to its next().
\* (The variant asks the source for one more chunk ahead of the consumer.)
TakeResponseMutantPrefetch(i, resp) ==
  LET p == [i EXCEPT !.pulls = @ + 2] IN
  CASE resp.type = "end" -> Finish(p, "incomplete", IncompleteMessage)
    [] resp.type = "throw" ->
         Finish(p, "srcfail", IF i.aborted THEN "AbortError" ELSE "TransportError")
    [] OTHER ->
         IF HasError(resp.chunk)
           THEN Finish(p, "error", resp.chunk.error)
           ELSE [p EXCEPT !.gen = "yielded", !.held = resp.chunk,
                          !.delivered = Append(@, resp.chunk)]

TakeResponse(i, resp) ==
  LET p == [i EXCEPT !.pulls = @ + 1] IN
  CASE resp.type = "end" -> Finish(p, "incomplete", IncompleteMessage)
    [] resp.type = "throw" ->
         Finish(p, "srcfail", IF i.aborted THEN "AbortError" ELSE "TransportError")
    [] OTHER ->
         IF HasError(resp.chunk)
           THEN Finish(p, "error", resp.chunk.error)
           ELSE [p EXCEPT !.gen = "yielded", !.held = resp.chunk,
                          !.delivered = Append(@, resp.chunk)]

\* Variants of Resume, each with one plausible slip of the generator.
\* The callback runs but the loop goes on pulling.
ResumeMutantNoReturn(i, resp) ==
  IF i.gen = "finished" THEN i
  ELSE IF i.gen = "yielded" /\ IsTerminal(i.held)
    THEN TakeResponse([i EXCEPT !.cb = @ + 1], resp)
    ELSE TakeResponse(i, resp)

\* The error payload is yielded like a chunk instead of being thrown.
ResumeMutantYieldsError(i, resp) ==
  IF i.gen = "finished" THEN i
  ELSE IF i.gen = "yielded" /\ IsTerminal(i.held)
    THEN [Finish(i, "done", "") EXCEPT !.cb = @ + 1]
    ELSE IF resp.type = "chunk"
      THEN [i EXCEPT !.pulls = @ + 1, !.gen = "yielded", !.held = resp.chunk,
                     !.delivered = Append(@, resp.chunk)]
      ELSE TakeResponse(i, resp)

\* The end of the source ends the sequence silently.
ResumeMutantSilentEnd(i, resp) ==
  IF i.gen = "finished" THEN i
  ELSE IF i.gen = "yielded" /\ IsTerminal(i.held)
    THEN [Finish(i, "done", "") EXCEPT !.cb = @ + 1]
    ELSE IF resp.type = "end"
      THEN Finish([i EXCEPT !.pulls = @ + 1], "done", "")
      ELSE TakeResponse(i, resp)

\* The callback runs before the terminal chunk is yielded.
ResumeMutantCallbackFirst(i, resp) ==
  IF i.gen = "finished" THEN i
  ELSE IF i.gen = "yielded" /\ IsTerminal(i.held)
    THEN Finish(i, "done", "")
    ELSE LET j == TakeResponse(i, resp) IN
         IF j.gen = "yielded" /\ IsTerminal(j.held)
           THEN [j EXCEPT !.cb = @ + 1] ELSE j

\* The end of the source is taken for the end of the response.
ResumeMutantCallbackAtEnd(i, resp) ==
  IF i.gen = "finished" THEN i
  ELSE IF i.gen = "yielded" /\ IsTerminal(i.held)
    THEN [Finish(i, "done", "") EXCEPT !.cb = @ + 1]
    ELSE IF resp.type = "end"
      THEN [Finish([i EXCEPT !.pulls = @ + 1], "done", "") EXCEPT !.cb = @ + 1]
      ELSE TakeResponse(i, resp)

\* One next() of the consumer: the generator runs from where it stands to
\* its next yield, return or throw.  `resp` is what the source answers if
\* the generator asks it.
\*   for await (const message of this.itr) {
\*     if ('error' in message) throw new Error(message.error)
\*     yield message
\*     if (message.done || message.status === 'success') {
\*       this.doneCallback(); return } }
\*   throw new Error('Did not receive done or success response in stream.')
Resume(i, resp) ==
  IF i.gen = "finished" THEN i
  ELSE IF i.gen = "yielded" /\ IsTerminal(i.held)
    THEN [Finish(i, "done", "") EXCEPT !.cb = @ + 1]
    ELSE TakeResponse(i, resp)

\* The consumer leaves its for await at a yield (break): the generator's
\* return() runs, which leaves the inner for await and closes the source.
Return(i) == Finish(i, "returned", "")

\* [Symbol.asyncIterator]() called once more on the iterator i: a new
\* generator over the same source, the same controller and the same
\* callback; NoGenerator while it was not called.
NoGenerator == [NewIterator EXCEPT !.gen = "none"]
SecondGenerator(i) ==
  [NewIterator EXCEPT !.closed = i.closed, !.aborted = i.aborted]

\* ------------------------------------------------------------ the store
\* A row of the table: the JSON document passed to insert, of which the
\* queries read message.role and message.content.
Doc(role, content) == [message |-> [role |-> role, content |-> content]]

\* const newMessage = { message: { role: 'user', content: prompt } }
PromptDoc(p) == Doc("user", p)

\* JSON.stringify(part) of a chat chunk: its message has the role assistant.
ResponseDoc(part) == Doc("assistant", part.content)

\* select prompt -> 'message' ->> 'role' as role,
\*        prompt -> 'message' ->> 'content' as content from history;
\* sqlite scans the rowid table in rowid order, the order of the inserts.
ReadAllMutantNewestFirst(s) == [k \in 1..Len(s) |-> s[Len(s) + 1 - k].message]
ReadAll(s) == [k \in 1..Len(s) |-> s[k].message]

\* What ({ message }) => message gives for an object without that key.
Undefined == [role |-> "undefined", content |-> <<>>]

\* const message: Message = { role: 'user', content: messageContent }
UserMessage(p) == [role |-> "user", content |-> p]

\* messages: [...context, message]
ChatMessages(context, p) == context \o <<UserMessage(p)>>

\* if (part?.message?.content) { fullContent += part.message.content }
AccumulateMutantOverwrite(full, c) == IF c.content # <<>> THEN c.content ELSE full
Accumulate(full, c) == IF c.content # <<>> THEN full \o c.content ELSE full

\* part.message.content = fullContent
FinalPart(c, full) == [c EXCEPT !.content = full]

\* process.stdout.write(part.message.content), which comes before
\* part.message.content = fullContent: what goes to the output is the
\* chunk's own content; full is the text accumulated so far.
WrittenMutantAfterReplace(part, full) == IF part.done THEN full ELSE part.content
Written(part, full) == part.content

\* ---------------------------------------------------------- the program
\* The entry points: the iterator class used directly on any stream by any
\* consumer, runLLM driven by the main loop of index.ts, the earlier runLLM
\* that returns null when the chat call fails, runLLMChat called with a
\* context by a caller that drains the response the same way, and the
\* drafts of the orchestrator: contextedChat of logger.ts (the last one),
\* contextedChat of runLLM.ts and contextedChat_ of runLLM.ts.
\* "index" is the program of index.ts: it asks for the prompt on the
\* terminal, calls runLLM once and drains the response.
Functions ==
  {"iterator", "index", "runLLM", "runLLMNull", "runLLMChat", "contextedChat",
   "contextedChatDraft", "contextedChat_"}
Invokers == {"index", "runLLM", "runLLMNull", "runLLMChat"}
\* The functions a caller invokes with a prompt.
Called == Functions \ {"iterator", "index"}
Orchestrators == {"contextedChat", "contextedChatDraft", "contextedChat_"}

\* The prompt argument: a string (its characters) or a value of another type.
PromptInputs ==
  [str : {TRUE}, text : {<<>>, <<"p">>, <<"q">>}]
    \cup {[str |-> FALSE, text |-> <<>>]}

\* The context argument of runLLMChat: none, or one earlier exchange.
Contexts ==
  {<<>>, <<UserMessage(<<"q">>), [role |-> "assistant", content |-> <<"a">>]>>}

\* assert.ok(typeof prompt === 'string'); assert.ok(prompt !== '')
ValidPrompt(p) == p.str /\ p.text # <<>>

\* The message of the assertion that fails on p, the first one first.
NotAString == "prompt should be a string"
EmptyPrompt == "prompt should not be empty"
AssertionMessage(p) == IF ~p.str THEN NotAString ELSE EmptyPrompt

VARIABLES
  fn,          \* the entry point this process runs
  pc,          \* where the current invocation stands
  invs,        \* the invocations started so far
  prompt,      \* the prompt of the current invocation (its text)
  store,       \* the rows of the table, in rowid order
  base,        \* history: the store when the current invocation started
  oldPrompts,  \* the context loaded from the store
  request,     \* the messages of the chat request issued, <<>> before
  nreq,        \* the chat requests issued by the current invocation
  it,          \* the AbortableAsyncIterator of the response
  srcLog,      \* history: what the source answered to each next()
  sent,        \* history: the chunks the server has sent in this run
  fullContent, \* the running buffer of the loop
  out,         \* the writes to process.stdout, in order
  err,         \* the error the invocation threw to its caller, "" if none
  signal,      \* the AbortSignal of the process-wide AbortController
  loaded,      \* history: how the read of the history went, "none" before
  again        \* the generator of a second iteration over the same iterator

vars ==
  <<fn, pc, invs, prompt, store, base, oldPrompts, request, nreq, it, srcLog,
    sent, fullContent, out, err, signal, loaded, again>>

\* const abortController = new AbortController(): its signal before abort()
\* is called, with no reason.
NoCode == -1
NewSignal == [aborted |-> FALSE, onExit |-> NoCode]

\* The exit codes of the process: success and failure.
ExitCodes == {0, 1}

\* abortController.abort({ onExit: code }) on a signal: a signal already
\* aborted keeps its reason.
AbortSignalMutantOverwrites(sig, code) == [aborted |-> TRUE, onExit |-> code]
AbortSignal(sig, code) ==
  IF sig.aborted THEN sig ELSE [aborted |-> TRUE, onExit |-> code]

\* The process has not exited.
Running == ~signal.aborted

Init ==
  /\ fn \in Functions
  /\ pc = "idle"
  /\ invs = 0
  /\ prompt = <<>>
  /\ store = <<>>
  /\ base = <<>>
  /\ oldPrompts = <<>>
  /\ request = <<>>
  /\ nreq = 0
  /\ it = NewIterator
  /\ srcLog = <<>>
  /\ sent = 0
  /\ fullContent = <<>>
  /\ out = <<>>
  /\ err = ""
  /\ signal = NewSignal
  /\ loaded = "none"
  /\ again = NoGenerator

\* The chunks the server sends on the stream of this entry point: a chat
\* request is answered by chat chunks or an error payload.
Chunks ==
  IF fn = "iterator" THEN ChatChunks \cup ProgressChunks \cup ErrorChunks
  ELSE ChatChunks \cup ErrorChunks

\* The chunks the source has sent so far.
SentChunks == SelectSeq(srcLog, LAMBDA r : r.type = "chunk")

\* What the source may answer to the next next(): nothing but the end once
\* it has ended, thrown or been closed.
SourceResponsesMutantNeverAnswers == {}
SourceResponses ==
  IF \/ it.closed
     \/ (srcLog # <<>> /\ srcLog[Len(srcLog)].type # "chunk")
    THEN {EndResponse}
    ELSE {EndResponse, ThrowResponse}
           \cup (IF sent < MaxChunks
                   THEN {ChunkResponse(c) : c \in Chunks} ELSE {})

\* The log of the source after a next() of the consumer that took the
\* iterator from i to j.
Logged(i, j, resp) == IF j.pulls > i.pulls THEN Append(srcLog, resp) ELSE srcLog

\* The count of chunks sent after that next().
Counted(i, j, resp) ==
  IF j.pulls > i.pulls /\ resp.type = "chunk" THEN sent + 1 ELSE sent

\* Where no invocation is running: none was made, or the last one returned
\* its response, threw, or returned null (if (response) skips the loop).
Ended == {"idle", "done", "failed", "returnedNull"}

\* A new invocation starts from a clean slate of locals.
Fresh ==
  /\ base' = store
  /\ request' = <<>>
  /\ nreq' = 0
  /\ it' = NewIterator
  /\ srcLog' = <<>>
  /\ fullContent' = <<>>
  /\ out' = <<>>
  /\ loaded' = "none"
  /\ again' = NoGenerator

\* The invocation ends by throwing msg to its caller.
ThrowMutantSwallow(msg) == pc' = "failed" /\ err' = ""
Throw(msg) == pc' = "failed" /\ err' = msg

\* --------------------------------------------------------- invocations
\* new AbortableAsyncIterator(abortController, itr, doneCallback): the
\* iterator is constructed over a stream and handed to a consumer.
Construct ==
  /\ Running
  /\ fn = "iterator"
  /\ pc \in {"idle", "done", "failed"}
  /\ invs < MaxInvocations
  /\ invs' = invs + 1
  /\ Fresh
  /\ prompt' = <<>>
  /\ oldPrompts' = <<>>
  /\ pc' = "streaming"
  /\ err' = ""
  /\ UNCHANGED <<fn, store, sent>>
  /\ UNCHANGED signal

\* The function is called with prompt p (runLLMChat also with a context):
\* its assertions run.
InvokeMutantChecksLate(p) ==
  /\ Running
  /\ fn \in Called
  /\ pc \in Ended
  /\ invs < MaxInvocations
  /\ invs' = invs + 1
  /\ Fresh
  /\ prompt' = p.text
  /\ oldPrompts' \in IF fn = "runLLMChat" THEN Contexts ELSE {<<>>}
  /\ pc' = IF fn \in Invokers THEN "requesting" ELSE "loading"
  /\ err' = ""
  /\ UNCHANGED <<fn, store, sent>>
  /\ UNCHANGED signal

Invoke(p) ==
  /\ Running
  /\ fn \in Called
  /\ pc \in Ended
  /\ invs < MaxInvocations
  /\ invs' = invs + 1
  /\ Fresh
  /\ prompt' = p.text
  /\ oldPrompts' \in IF fn = "runLLMChat" THEN Contexts ELSE {<<>>}
  /\ IF ValidPrompt(p)
       THEN /\ pc' = IF fn \in Invokers THEN "requesting" ELSE "loading"
            /\ err' = ""
       ELSE Throw(AssertionMessage(p))
  /\ UNCHANGED <<fn, store, sent>>
  /\ UNCHANGED signal

\* const cliResponse = await cli.question('...', { signal }): the program
\* waits for a line of the user.
Ask ==
  /\ Running
  /\ fn = "index"
  /\ pc = "idle"
  /\ pc' = "asking"
  /\ UNCHANGED <<fn, invs, prompt, store, base, oldPrompts, request, nreq, it,
                 srcLog, sent, fullContent, out, err>>
  /\ UNCHANGED <<signal, loaded, again>>

\* The lines the user may enter.
Lines == {<<>>, <<"p">>, <<"q">>}

\* The message of the assertion of index.ts on the line read.
EmptyAnswer == "cli.question returned empty string"

\* The user enters the line text: an empty line fails the assertion of
\* index.ts, any other is passed to runLLM.
Answer(text) ==
  /\ Running
  /\ fn = "index"
  /\ pc = "asking"
  /\ Fresh
  /\ prompt' = text
  /\ oldPrompts' = <<>>
  /\ IF text # <<>>
       THEN /\ invs' = invs + 1
            /\ pc' = "requesting"
            /\ err' = ""
       ELSE /\ Throw(EmptyAnswer)
            /\ UNCHANGED invs
  /\ UNCHANGED <<fn, store, sent>>
  /\ UNCHANGED signal

\* The database is opened and the history read (contextedChat_ reads the
\* rows only if count(*) is not 0, which gives the same rows).
\* contextedChat of logger.ts catches a failing read and goes on with an
\* empty context; the other drafts, and the opening of the database in all
\* of them, throw.
LoadContext ==
  /\ Running
  /\ pc = "loading"
  /\ \E res \in {"ok", "readfail", "openfail"} :
       /\ loaded' = res
       /\ IF res = "ok"
            THEN /\ oldPrompts' = ReadAll(store)
                 /\ pc' = IF fn = "contextedChat_"
                            THEN "requesting" ELSE "recording"
                 /\ err' = ""
            ELSE IF res = "readfail" /\ fn = "contextedChat"
              THEN /\ oldPrompts' = <<>>
                   /\ pc' = "recording"
                   /\ err' = ""
              ELSE /\ Throw("StoreReadError")
                   /\ UNCHANGED oldPrompts
  /\ UNCHANGED <<fn, invs, prompt, store, base, request, nreq, it, srcLog, sent,
                 fullContent, out>>
  /\ UNCHANGED <<signal, again>>

\* insertPromptPrep.run(JSON.stringify(newMessage)): the prompt is written
\* before the request, or the statement throws.
RecordPromptMutantReplaces ==
  /\ Running
  /\ pc = "recording"
  /\ store' = <<PromptDoc(prompt)>>
  /\ pc' = "requesting"
  /\ err' = ""
  /\ UNCHANGED <<fn, invs, prompt, base, oldPrompts, request, nreq, it, srcLog, sent,
                 fullContent, out>>
  /\ UNCHANGED <<signal, loaded, again>>

RecordPromptMutantTwice ==
  /\ Running
  /\ pc = "recording"
  /\ store' = store \o <<PromptDoc(prompt), PromptDoc(prompt)>>
  /\ pc' = "requesting"
  /\ err' = ""
  /\ UNCHANGED <<fn, invs, prompt, base, oldPrompts, request, nreq, it, srcLog, sent,
                 fullContent, out>>
  /\ UNCHANGED <<signal, loaded, again>>

RecordPrompt ==
  /\ Running
  /\ pc = "recording"
  /\ \E ok \in BOOLEAN :
       IF ok
         THEN /\ store' = Append(store, PromptDoc(prompt))
              /\ pc' = "requesting"
              /\ err' = ""
         ELSE /\ Throw("StoreError")
              /\ UNCHANGED store
  /\ UNCHANGED <<fn, invs, prompt, base, oldPrompts, request, nreq, it, srcLog, sent,
                 fullContent, out>>
  /\ UNCHANGED <<signal, loaded, again>>

\* chatHistory = [...chatHistory, messagePrompt]
\* context: chatHistory.map(({ message }) => message)
\* The rows read have the keys role and content, and no key message.
UnderscoreContext(rows, p) ==
  [k \in 1..Len(rows) |-> Undefined] \o <<UserMessage(p)>>

\* The context each entry point passes to the chat call.
Context(f, rows, p) ==
  CASE f \in {"contextedChat", "runLLMChat"} -> rows
    [] f = "contextedChat_" -> UnderscoreContext(rows, p)
    [] OTHER -> <<>>

\* ollama.chat({ model, messages, stream: true }) is called.
IssueRequest ==
  /\ Running
  /\ pc = "requesting"
  /\ request' = ChatMessages(Context(fn, oldPrompts, prompt), prompt)
  /\ nreq' = nreq + 1
  /\ pc' = "awaiting"
  /\ UNCHANGED <<fn, invs, prompt, store, base, oldPrompts, it, srcLog, sent,
                 fullContent, out, err>>
  /\ UNCHANGED <<signal, loaded, again>>

\* The chat call returns the iterator of the response.
Establish ==
  /\ Running
  /\ pc = "awaiting"
  /\ pc' = "streaming"
  /\ UNCHANGED <<fn, invs, prompt, store, base, oldPrompts, request, nreq, it,
                 srcLog, sent, fullContent, out, err>>
  /\ UNCHANGED <<signal, loaded, again>>

\* catch (chatResponseError) { ...; response = null } return response
ReturnsNull(f) == f = "runLLMNull"

\* The chat call throws: the error is logged and thrown again; the earlier
\* runLLM logs it and returns null.
TransportFailMutantRetries ==
  /\ Running
  /\ pc = "awaiting"
  /\ pc' = "requesting"
  /\ err' = ""
  /\ UNCHANGED <<fn, invs, prompt, store, base, oldPrompts, request, nreq, it,
                 srcLog, sent, fullContent, out>>
  /\ UNCHANGED <<signal, loaded, again>>
TransportFail ==
  /\ Running
  /\ pc = "awaiting"
  /\ IF ReturnsNull(fn)
       THEN pc' = "returnedNull" /\ err' = ""
       ELSE Throw("TransportError")
  /\ UNCHANGED <<fn, invs, prompt, store, base, oldPrompts, request, nreq, it,
                 srcLog, sent, fullContent, out>>
  /\ UNCHANGED <<signal, loaded, again>>

\* The inserts an entry point makes when part.done === true, in order.
DoneWritesMutantTwice(f, p, part) ==
  CASE f = "contextedChat" -> <<ResponseDoc(part), ResponseDoc(part)>>
    [] f = "contextedChat_" -> <<PromptDoc(p), ResponseDoc(part)>>
    [] OTHER -> <<>>
DoneWrites(f, p, part) ==
  CASE f = "contextedChat" -> <<ResponseDoc(part)>>
    [] f = "contextedChat_" -> <<PromptDoc(p), ResponseDoc(part)>>
    [] OTHER -> <<>>

\* One turn of for await (const part of response): the next() and, for a
\* chunk, the body of the loop; w is the number of inserts that run before
\* one throws.
LoopStep ==
  /\ Running
  /\ pc = "streaming"
  /\ fn # "iterator"
  /\ \E resp \in SourceResponses, w \in 0..2 :
       LET j == Resume(it, resp)
           part == j.held
           full == Accumulate(fullContent, part)
           final == FinalPart(part, full)
           writes == IF part.done THEN DoneWrites(fn, prompt, final) ELSE <<>>
       IN
       /\ srcLog' = Logged(it, j, resp)
       /\ sent' = Counted(it, j, resp)
       /\ IF j.gen = "yielded"
            THEN /\ w <= Len(writes)
                 /\ fullContent' = full
                 /\ out' = Append(out, Written(part, full))
                 /\ store' = store \o SubSeq(writes, 1, w)
                 /\ IF w < Len(writes)
                      THEN /\ it' = Return(j)
                           /\ Throw("StoreError")
                      ELSE /\ it' = IF part.done /\ fn \notin Invokers
                                      THEN [j EXCEPT !.held = final] ELSE j
                           /\ pc' = "streaming"
                           /\ err' = ""
            ELSE /\ w = 0
                 /\ it' = j
                 /\ IF j.outcome = "done"
                      THEN pc' = "done" /\ err' = ""
                      ELSE Throw(j.err)
                 /\ UNCHANGED <<store, fullContent, out>>
  /\ UNCHANGED <<fn, invs, prompt, base, oldPrompts, request, nreq>>
  /\ UNCHANGED <<signal, loaded, again>>

\* ------------------------------------- a consumer holding the iterator
\* The consumer asks for the next item.
ConsumerNext ==
  /\ Running
  /\ pc = "streaming"
  /\ fn = "iterator"
  /\ \E resp \in SourceResponses :
       LET j == Resume(it, resp) IN
       /\ srcLog' = Logged(it, j, resp)
       /\ sent' = Counted(it, j, resp)
       /\ it' = j
       /\ pc' = IF j.gen # "finished" THEN "streaming"
                ELSE IF j.outcome = "done" THEN "done" ELSE "failed"
       /\ err' = j.err
  /\ UNCHANGED <<fn, invs, prompt, store, base, oldPrompts, request, nreq,
                 fullContent, out>>
  /\ UNCHANGED <<signal, loaded, again>>

\* The consumer leaves its loop at a chunk.
ConsumerBreak ==
  /\ Running
  /\ pc = "streaming"
  /\ fn = "iterator"
  /\ it.gen = "yielded"
  /\ it' = Return(it)
  /\ pc' = "done"
  /\ UNCHANGED <<fn, invs, prompt, store, base, oldPrompts, request, nreq,
                 srcLog, sent, fullContent, out, err>>
  /\ UNCHANGED <<signal, loaded, again>>

\* The consumer calls abort() on the iterator.
ConsumerAbort ==
  /\ Running
  /\ pc = "streaming"
  /\ fn = "iterator"
  /\ ~it.aborted
  /\ it' = Abort(it)
  /\ UNCHANGED <<fn, pc, invs, prompt, store, base, oldPrompts, request, nreq,
                 srcLog, sent, fullContent, out, err>>
  /\ UNCHANGED <<signal, loaded, again>>

\* The holder of an iterator whose iteration is over (drained, failed, or
\* left by break; the response that contextedChat returns is such a one)
\* starts a for await over it again.
IterateAgain ==
  /\ Running
  /\ fn = "iterator"
  /\ pc \in {"done", "failed"}
  /\ it.gen = "finished"
  /\ again = NoGenerator
  /\ again' = SecondGenerator(it)
  /\ UNCHANGED <<fn, pc, invs, prompt, store, base, oldPrompts, request, nreq,
                 it, srcLog, sent, fullContent, out, err>>
  /\ UNCHANGED <<signal, loaded>>

\* What the source answers to a next() of the second generator: a source
\* that was closed or has ended is done for ever.
AgainResponses == IF again.closed THEN {EndResponse} ELSE SourceResponses

\* One next() of the second for await.
AgainNext ==
  /\ Running
  /\ fn = "iterator"
  /\ again.gen \in {"start", "yielded"}
  /\ \E resp \in AgainResponses : again' = Resume(again, resp)
  /\ UNCHANGED <<fn, pc, invs, prompt, store, base, oldPrompts, request, nreq,
                 it, srcLog, sent, fullContent, out, err>>
  /\ UNCHANGED <<signal, loaded>>

\* ------------------------------------------------- the end of the process
\* Where the process can be when 'exit' is emitted: code that does not
\* wait runs to its end, so the event comes while the program waits (for
\* the chat call, for the next chunk) or has nothing left to do. The loops
\* of the program have no await in their body and the generator ends after
\* a terminal chunk without asking the source, so they do not wait after
\* it; a consumer holding the iterator may wait anywhere.
CanExitMutantAnywhere == TRUE
CanExit ==
  \/ pc \in Ended \cup {"asking", "awaiting"}
  \/ /\ pc = "streaming"
     /\ fn = "iterator" \/ ~(it.gen = "yielded" /\ IsTerminal(it.held))

\* Where the program stands once the signal has fired at p: the question
\* of index.ts listens to the signal and rejects; nothing else reads it.
AfterSignal(p) == IF p = "asking" THEN "questionRejected" ELSE p

\* process.on('exit', code => abortController.abort({ onExit: code })):
\* the signal fires and the process ends where it is; nothing is written.
ProcessExitMutantFlush ==
  /\ Running
  /\ CanExit
  /\ \E code \in ExitCodes : signal' = AbortSignal(signal, code)
  /\ store' = IF pc = "streaming" /\ fn \in Orchestrators
                THEN Append(store, Doc("assistant", fullContent))
                ELSE store
  /\ pc' = AfterSignal(pc)
  /\ UNCHANGED <<fn, invs, prompt, base, oldPrompts, request, nreq, it,
                 srcLog, sent, fullContent, out, err, loaded, again>>

ProcessExit ==
  /\ Running
  /\ CanExit
  /\ \E code \in ExitCodes : signal' = AbortSignal(signal, code)
  /\ pc' = AfterSignal(pc)
  /\ UNCHANGED <<fn, invs, prompt, store, base, oldPrompts, request, nreq,
                 it, srcLog, sent, fullContent, out, err, loaded, again>>

Next ==
  \/ Construct
  \/ \E p \in PromptInputs : Invoke(p)
  \/ Ask
  \/ \E text \in Lines : Answer(text)
  \/ LoadContext
  \/ RecordPrompt
  \/ IssueRequest
  \/ Establish
  \/ TransportFail
  \/ LoopStep
  \/ ConsumerNext
  \/ ConsumerBreak
  \/ ConsumerAbort
  \/ IterateAgain
  \/ AgainNext
  \/ ProcessExit

Spec == Init /\ [][Next]_vars

\* What keeps an invocation going: the statements of the function run one
\* after the other, the chat call returns or throws, and every next() of
\* the loop is answered by the source (a chunk, its end, or a throw).
Fairness ==
  /\ WF_vars(LoadContext)
  /\ WF_vars(RecordPrompt)
  /\ WF_vars(IssueRequest)
  /\ WF_vars(Establish \/ TransportFail)
  /\ WF_vars(LoopStep)

\* The orchestrators alone, for what is claimed of their invocations only:
\* the same steps, started in an orchestrator.
OrchestratedInit == Init /\ fn \in Orchestrators

OrchestratedNext ==
  \/ \E p \in PromptInputs : Invoke(p)
  \/ LoadContext
  \/ RecordPrompt
  \/ IssueRequest
  \/ Establish
  \/ TransportFail
  \/ LoopStep
  \/ ProcessExit

LiveSpec == OrchestratedInit /\ [][OrchestratedNext]_vars /\ Fairness

\* ===================================================================
\* Properties
\* ===================================================================
\* The chunk is a terminal one in the words of the specification.
TerminalChunk(c) == c.done = TRUE \/ c.status = "success"

\* The last answer of the source, if it gave one.
LastAnswer == srcLog[Len(srcLog)]

\* The source has sent a terminal chunk that was no error payload.
TerminalPulled ==
  \E k \in 1..Len(srcLog) :
    /\ srcLog[k].type = "chunk"
    /\ srcLog[k].chunk.error = Absent
    /\ TerminalChunk(srcLog[k].chunk)

\* The contents of the chunks sent, concatenated in the order of receipt.
RECURSIVE ConcatContents(_)
ConcatContents(log) ==
  IF log = <<>> THEN <<>>
  ELSE ConcatContents(SubSeq(log, 1, Len(log) - 1))
         \o log[Len(log)].chunk.content

\* C1: in one iteration doneCallback is called at most once, and only
\* after a chunk with done = true or status = 'success' was pulled; it is
\* not called when the iteration ends by an error payload, by the end of
\* the source, by an exception of the source or by the consumer leaving.
C1_CallbackAtMostOnceOnlyOnTerminal ==
  /\ it.cb <= 1
  /\ it.cb = 1 => (TerminalPulled /\ it.outcome = "done")
  /\ it.outcome \in {"error", "incomplete", "srcfail", "returned"} => it.cb = 0

\* C1 witness: the callback has run once, after a stream of two chunks
\* was drained by a consumer holding the iterator.
C1_Witness ==
  /\ fn = "iterator"
  /\ it.cb = 1
  /\ it.outcome = "done"
  /\ Len(it.delivered) = 2

\* C2: on a chat request the chunks delivered hold at most one final chunk,
\* which is the last one; when the iteration is over, either the sequence
\* ends with that final chunk or the operation failed with the error of
\* the stream (error payload, stream ended early, transport).
C2_ChatSequenceEndsWithOneFinalChunk ==
  fn # "iterator" =>
    /\ \A k \in 1..Len(it.delivered) :
         it.delivered[k].done => k = Len(it.delivered)
    /\ it.gen = "finished" =>
         \/ /\ it.delivered # <<>>
            /\ it.delivered[Len(it.delivered)].done
         \/ /\ it.outcome \in {"error", "incomplete", "srcfail"}
            /\ pc = "failed"
            /\ err = it.err
            /\ err # ""
    /\ pc = "done" =>
         /\ it.delivered # <<>>
         /\ it.delivered[Len(it.delivered)].done

\* C2 witness: a chat stream of three chunks was drained to its final chunk.
C2_Witness ==
  /\ fn = "runLLM"
  /\ pc = "done"
  /\ Len(it.delivered) = 3
  /\ it.delivered[3].done

\* C3 as stated: once a terminal chunk was pulled and the iteration is
\* over, the callback has been called exactly once.
C3_CallbackAlwaysOnceAfterTerminal ==
  (TerminalPulled /\ it.gen = "finished") => it.cb = 1

\* C3 amended: a terminal chunk pulled is yielded and is the last thing
\* asked of the source and the last chunk yielded; the callback is called
\* exactly once when the consumer asks for the next item, and not if the
\* consumer leaves at the terminal chunk.
C3_TerminalChunkEndsSequence ==
  \A k \in 1..Len(srcLog) :
    (/\ srcLog[k].type = "chunk"
     /\ srcLog[k].chunk.error = Absent
     /\ TerminalChunk(srcLog[k].chunk)) =>
      /\ k = Len(srcLog)
      /\ it.pulls = k
      /\ Len(it.delivered) = k
      /\ it.delivered[k] = srcLog[k].chunk
      /\ it.gen = "finished" => it.outcome \in {"done", "returned"}
      /\ it.cb = IF it.outcome = "done" THEN 1 ELSE 0

\* C3 witness: a stream ended by status 'success' after another chunk, and
\* the consumer asked for the next item.
C3_Witness ==
  /\ Len(srcLog) = 2
  /\ LastAnswer.chunk.status = "success"
  /\ it.outcome = "done"
  /\ it.cb = 1

\* C4: an error payload, wherever it comes, makes the iteration fail with
\* the server's message; the payload is not yielded, nothing more is asked
\* of the source, and the callback is not called.
C4_ErrorPayloadFailsIteration ==
  \A k \in 1..Len(srcLog) :
    (srcLog[k].type = "chunk" /\ srcLog[k].chunk.error # Absent) =>
      /\ k = Len(srcLog)
      /\ it.pulls = k
      /\ it.gen = "finished"
      /\ it.outcome = "error"
      /\ it.err = srcLog[k].chunk.error
      /\ Len(it.delivered) = k - 1
      /\ \A d \in 1..Len(it.delivered) : it.delivered[d].error = Absent
      /\ it.cb = 0
      /\ pc = "failed"
      /\ err = srcLog[k].chunk.error

\* C4 witness: an error payload came third and its message was thrown.
C4_Witness ==
  /\ Len(srcLog) = 3
  /\ LastAnswer.chunk.error = "overloaded"
  /\ it.err = "overloaded"

\* C5: when the source ends without a terminal chunk (an empty source
\* too), every chunk it sent was yielded, in order, none of them terminal,
\* the iteration failed with the incomplete-stream error, and the callback
\* was not called.
C5_ExhaustedSourceFailsIncomplete ==
  (srcLog # <<>> /\ LastAnswer.type = "end") =>
    /\ it.gen = "finished"
    /\ it.outcome = "incomplete"
    /\ it.err = IncompleteMessage
    /\ Len(it.delivered) = Len(srcLog) - 1
    /\ \A k \in 1..Len(it.delivered) :
         /\ it.delivered[k] = srcLog[k].chunk
         /\ ~TerminalChunk(it.delivered[k])
    /\ it.cb = 0
    /\ pc = "failed"
    /\ err = IncompleteMessage

\* C5 witness: the source ended after two chunks, none terminal.
C5_Witness ==
  /\ Len(srcLog) = 3
  /\ LastAnswer.type = "end"
  /\ Len(it.delivered) = 2

\* C6 as stated: after abort() was called mid-stream (before any terminal
\* chunk), the callback is not called, no error reaches the consumer, and
\* no chunk is yielded any more.
C6_AbortEndsIterationCleanly ==
  (/\ it.abortAt # -1
   /\ \A k \in 1..it.abortAt : ~TerminalChunk(it.delivered[k])) =>
    /\ it.cb = 0
    /\ it.outcome \notin {"error", "incomplete", "srcfail"}
    /\ Len(it.delivered) = it.abortAt

\* C7: when an invocation of the orchestrator has completed, the assistant
\* turn it wrote holds the contents of all chunks of the stream, up to and
\* including the terminal one, concatenated in the order of receipt.
C7_AssistantContentIsConcatenation ==
  (fn \in Orchestrators /\ pc = "done") =>
    \A k \in (Len(base) + 1)..Len(store) :
      store[k].message.role = "assistant" =>
        store[k].message.content = ConcatContents(srcLog)

\* C7 witness: contextedChat of logger.ts completed on the chunks "a", "b"
\* and a final chunk, and stored "ab".
C7_Witness ==
  /\ fn = "contextedChat"
  /\ pc = "done"
  /\ Len(srcLog) = 3
  /\ store[Len(store)] = Doc("assistant", <<"a", "b">>)

\* C8 as stated: whenever an orchestrator has issued its request, the
\* prompt of the invocation is in the store.
C8_PromptRecordedBeforeRequest ==
  (fn \in Orchestrators /\ nreq > 0) =>
    /\ Len(store) > Len(base)
    /\ store[Len(base) + 1] = PromptDoc(prompt)

\* C9 as stated: the request of an orchestrator that read the history
\* carries that history, oldest first, and then the prompt, once.
C9_RequestIsHistoryThenPrompt ==
  (fn \in Orchestrators /\ nreq > 0 /\ oldPrompts = ReadAll(base)) =>
    request = ReadAll(base) \o <<UserMessage(prompt)>>

\* C10 as stated: a completed invocation of an orchestrator has added to
\* the store the prompt and then one assistant turn, and nothing else.
C10_CompletedInvocationAddsOneExchange ==
  (fn \in Orchestrators /\ pc = "done") =>
    /\ Len(store) = Len(base) + 2
    /\ SubSeq(store, 1, Len(base)) = base
    /\ store[Len(base) + 1] = PromptDoc(prompt)
    /\ store[Len(base) + 2].message.role = "assistant"

\* The invocation was cut by the end of the process while it waited for
\* the response or for a chunk: it neither returned nor threw.
Aborted == signal.aborted /\ pc \in {"awaiting", "streaming"}

C12_StreamFailureKeepsPromptOnly ==
  (/\ fn = "contextedChat"
   /\ it.gen = "finished"
   /\ it.outcome \in {"error", "incomplete", "srcfail"}) =>
    /\ pc = "failed"
    /\ err = it.err
    /\ err # ""
    /\ store = base \o <<PromptDoc(prompt)>>
    /\ \A k \in (Len(base) + 1)..Len(store) :
         store[k].message.role # "assistant"

\* C12 witness: in a second invocation the stream sent a chunk and then
\* the error payload "model not found".
C12_Witness ==
  /\ fn = "contextedChat"
  /\ pc = "failed"
  /\ Len(base) = 2
  /\ Len(srcLog) = 2
  /\ it.outcome = "error"
  /\ err = "model not found"

\* C13: runLLM, runLLMChat and contextedChat (every draft) called with an
\* empty string or with a value that is no string fail at once with the
\* assertion error: no chat request is issued, the history is not read, and
\* the store is what it was when the function was called.
C13_InvalidPromptRejectedAtOnce ==
  (fn # "iterator" /\ invs > 0 /\ prompt = <<>>) =>
    /\ pc = "failed"
    /\ err \in {NotAString, EmptyPrompt}
    /\ nreq = 0
    /\ request = <<>>
    /\ srcLog = <<>>
    /\ fn \in Orchestrators => oldPrompts = <<>>
    /\ store = base

\* C13 witness: contextedChat of logger.ts was called with a value that is
\* no string when the store held one exchange.
C13_Witness ==
  /\ fn = "contextedChat"
  /\ invs = 2
  /\ Len(store) = 2
  /\ pc = "failed"
  /\ err = NotAString

\* The chat call of the invocation failed before it returned a stream.
TransportFailed ==
  /\ nreq > 0
  /\ it.pulls = 0
  /\ pc \notin {"awaiting", "streaming"}

\* C14 as stated: when the chat call fails before returning a stream, the
\* invocation throws the error to its caller and the store is what it was
\* before the invocation.
C14_TransportFailureLeavesStoreUnchanged ==
  (fn # "iterator" /\ TransportFailed) =>
    /\ pc = "failed"
    /\ err = "TransportError"
    /\ store = base

FirstCompleted ==
  /\ invs = 2
  /\ Len(base) = 2
  /\ base[1].message.role = "user"
  /\ base[2].message.role = "assistant"

\* C16 as stated: in a second invocation that follows a completed one, the
\* context read holds the prompt of the first and then its reply, and the
\* request of the second carries that context before the new prompt.
C16_SecondRequestCarriesFirstExchange ==
  (/\ fn \in {"contextedChat", "contextedChat_"}
   /\ FirstCompleted
   /\ loaded = "ok") =>
    /\ oldPrompts = <<base[1].message, base[2].message>>
    /\ nreq > 0 => request = oldPrompts \o <<UserMessage(prompt)>>

\* C17 as stated: when the store cannot be read while the context is
\* loaded (the database cannot be opened, or the select fails), the
\* invocation does not fail for it: the context is empty and the request
\* issued carries the new prompt only.
C17_UnreadableStoreGivesEmptyContext ==
  (/\ fn \in {"contextedChat", "contextedChatDraft"}
   /\ loaded \in {"readfail", "openfail"}) =>
    /\ ~(pc = "failed" /\ err = "StoreReadError")
    /\ oldPrompts = <<>>
    /\ nreq > 0 => request = <<UserMessage(prompt)>>

InFlight ==
  {k \in (Len(base) + 1)..Len(store) :
     /\ store[k].message.role = "user"
     /\ (k = Len(store) \/ store[k + 1].message.role # "assistant")}

Phase(p, sig, i) ==
  CASE p = "idle" -> "IDLE"
    [] p = "done" -> "DONE"
    [] p \in {"failed", "returnedNull"} -> "FAILED"
    [] sig.aborted -> "ABORTED"
    [] p \in {"loading", "recording", "requesting"} -> "LOADING_CONTEXT"
    [] p = "awaiting" -> "AWAITING_RESPONSE"
    [] i.gen = "yielded" /\ i.held.done -> "FINALIZING"
    [] OTHER -> "STREAMING"

\* The moves of the state machine of one invocation.
PhaseMoves ==
  {<<"LOADING_CONTEXT", "LOADING_CONTEXT">>,
   <<"LOADING_CONTEXT", "AWAITING_RESPONSE">>,
   <<"AWAITING_RESPONSE", "STREAMING">>,
   <<"STREAMING", "STREAMING">>,
   <<"STREAMING", "FINALIZING">>,
   <<"FINALIZING", "DONE">>,
   <<"AWAITING_RESPONSE", "ABORTED">>,
   <<"STREAMING", "ABORTED">>,
   <<"LOADING_CONTEXT", "FAILED">>,
   <<"AWAITING_RESPONSE", "FAILED">>,
   <<"STREAMING", "FAILED">>,
   <<"FINALIZING", "FAILED">>}

\* C20: every step of an invocation of contextedChat of logger.ts is a
\* move of the state machine; ABORTED is entered from AWAITING_RESPONSE or
\* STREAMING by the signal firing, FAILED with an error thrown; after DONE,
\* ABORTED or FAILED the invocation writes no row, issues no request and
\* takes no chunk, and the next invocation starts only after DONE or FAILED.
C20_InvocationFollowsStateMachine ==
  [][fn = "contextedChat" =>
       LET from == Phase(pc, signal, it)
           to == Phase(pc', signal', it')
       IN IF invs' # invs
            THEN /\ from \in {"IDLE", "DONE", "FAILED"}
                 /\ to \in {"LOADING_CONTEXT", "FAILED"}
            ELSE /\ from \in {"DONE", "ABORTED", "FAILED", "IDLE"} =>
                      /\ to = from
                      /\ UNCHANGED <<store, request, nreq, it, srcLog, out>>
                 /\ from \notin {"DONE", "ABORTED", "FAILED", "IDLE"} =>
                      <<from, to>> \in PhaseMoves
                 /\ (to = "ABORTED" /\ from # "ABORTED") =>
                      ~signal.aborted /\ signal'.aborted
                 /\ (to = "FAILED" /\ from # "FAILED") => err' # ""
                 /\ (to = "FINALIZING") =>
                      store' = store \o <<ResponseDoc(it'.held)>>
    ]_vars

\* C20 witness: a second invocation went through the four states to DONE
\* on a stream of two chunks.
C20_Witness ==
  /\ fn = "contextedChat"
  /\ invs = 2
  /\ Phase(pc, signal, it) = "DONE"
  /\ Len(it.delivered) = 2
  /\ it.cb = 1

\* The program waits for the next chunk of the response: its loop is at a
\* pull that the source has not answered.
BlockedPull ==
  /\ fn # "iterator"
  /\ pc = "streaming"
  /\ it.gen # "finished"

\* C21 as stated: once the signal has fired, the wait for the line of the
\* user and the pull on the response are over: the question is not
\* pending any more, and no pull stays blocked on a stream that nobody
\* aborted.
C21_SignalInterruptsBlockedWaits ==
  signal.aborted =>
    /\ pc # "asking"
    /\ BlockedPull => (it.aborted \/ it.closed)

\* The final chunk was delivered to contextedChat of logger.ts and the
\* insert of its reply did not go through.
FinalizeFailed ==
  /\ fn = "contextedChat"
  /\ it.delivered # <<>>
  /\ it.delivered[Len(it.delivered)].done
  /\ Len(store) = Len(base) + 1

\* C22 as stated: a failing insert of the assistant turn does not fail the
\* invocation: no error is thrown to the caller for it.
C22_FinalizeFailureIsOnlyAWarning ==
  FinalizeFailed => (pc # "failed" /\ err = "")

\* C23: the chunks yielded are the chunks the source sent, in its order;
\* the loops of the program have put each of them, in that order, in the
\* buffer and on the output; and the source was never asked for more than
\* one chunk beyond the ones the consumer has got.
C23_ChunksProcessedInReceiptOrder ==
  /\ Len(it.delivered) <= Len(srcLog)
  /\ \A k \in 1..Len(it.delivered) :
       /\ srcLog[k].type = "chunk"
       /\ it.delivered[k] = srcLog[k].chunk
  /\ it.pulls = Len(srcLog)
  /\ it.pulls <= Len(it.delivered) + 1
  /\ fn # "iterator" =>
       /\ Len(out) = Len(it.delivered)
       /\ \A k \in 1..Len(out) : out[k] = it.delivered[k].content
       /\ fullContent = ConcatContents(SubSeq(srcLog, 1, Len(out)))

\* C23 witness: contextedChat of logger.ts has processed the chunks "a",
\* "b" and the final chunk, in that order.
C23_Witness ==
  /\ fn = "contextedChat"
  /\ out = <<<<"a">>, <<"b">>, <<>>>>
  /\ fullContent = <<"a", "b">>
  /\ it.pulls = 3

\* An invocation of an orchestrator is under way.
Underway ==
  /\ fn \in Orchestrators
  /\ pc \in {"loading", "recording", "requesting", "awaiting", "streaming"}
  /\ Running

C25_SecondIterationYieldsNothing ==
  again.gen # "none" =>
    /\ again.delivered = <<>>
    /\ again.gen # "yielded"
    /\ again.cb = 0
    /\ it.cb + again.cb <= 1

\* C25 witness: an iterator drained to its terminal chunk, whose callback
\* was called, was iterated again and the second loop is over.
C25_Witness ==
  /\ it.outcome = "done"
  /\ it.cb = 1
  /\ Len(it.delivered) = 2
  /\ again.gen = "finished"

\* C26: every step of an orchestrator leaves the rows of the store as
\* they are and in place, and at most appends rows after them: what a read
\* gave before is a prefix of what any later read gives.
C26_StoreIsAppendOnly ==
  [][/\ Len(store') >= Len(store)
     /\ SubSeq(store', 1, Len(store)) = store
     /\ (fn \in Orchestrators /\ loaded' = "ok" /\ loaded = "none") =>
          /\ Len(oldPrompts') >= Len(ReadAll(base))
          /\ SubSeq(oldPrompts', 1, Len(base)) = ReadAll(base)
    ]_vars

\* C26 witness: a second invocation has added its two rows after the two
\* rows of the first.
C26_Witness ==
  /\ fn = "contextedChat"
  /\ Len(base) = 2
  /\ Len(store) = 4
  /\ SubSeq(store, 1, 2) = base

\* The rows of a store are whole documents: a role and a content, never
\* part of one.
WholeRows ==
  \A k \in 1..Len(store) :
    \/ store[k] = Doc("user", store[k].message.content)
    \/ store[k] = Doc("assistant", store[k].message.content)

\* The rows an orchestrator has added once it stands at p without having
\* thrown: its prompt after the insert of the prompt, and its inserts of
\* the terminal chunk once that chunk is processed.
RowsAdded ==
  (IF fn \in {"contextedChat", "contextedChatDraft"}
        /\ pc \in {"requesting", "awaiting", "streaming", "done"}
     THEN <<PromptDoc(prompt)>> ELSE <<>>)
  \o (IF pc \in {"streaming", "done"} /\ it.delivered # <<>>
        /\ it.delivered[Len(it.delivered)].done
        THEN DoneWrites(fn, prompt,
                        FinalPart(it.delivered[Len(it.delivered)], fullContent))
        ELSE <<>>)

C29_AtMostOneRequestPerInvocation ==
  /\ nreq \in {0, 1}
  /\ fn # "iterator" =>
       /\ pc \in {"awaiting", "streaming", "done", "returnedNull"} => nreq = 1
       /\ (pc = "failed" /\ (err = "TransportError" \/ it.pulls > 0)) => nreq = 1
       /\ nreq = 0 => request = <<>>

\* C29 witness: contextedChat failed on the transport after its one
\* request.
C29_Witness ==
  /\ fn = "contextedChat"
  /\ pc = "failed"
  /\ err = "TransportError"
  /\ nreq = 1

\* The consumer has the terminal chunk in hand and has not asked for the
\* next item.
AtTerminalChunk == it.gen = "yielded" /\ IsTerminal(it.held)

\* C30: doneCallback comes after the delivery of the terminal chunk.
\* While the consumer has a chunk in hand, the terminal one too, the
\* callback has not run, so the inserts made on the terminal chunk are in
\* the store before it; it has run only once the consumer asked for the
\* next item after the terminal chunk; and a consumer that leaves at the
\* terminal chunk, by choice or because its insert threw, never makes it
\* run.
C30_CallbackAfterTerminalDelivery ==
  /\ it.gen = "yielded" => it.cb = 0
  /\ it.cb > 0 =>
       /\ it.gen = "finished"
       /\ it.outcome = "done"
       /\ it.delivered # <<>>
       /\ IsTerminal(it.delivered[Len(it.delivered)])
       /\ it.pulls = Len(it.delivered)
  /\ (it.gen = "finished" /\ it.outcome # "done") => it.cb = 0
  /\ (AtTerminalChunk /\ fn \in Orchestrators) =>
       /\ pc = "streaming"
       /\ Len(store) = Len(base) + Len(RowsAdded)

\* C30 witness: contextedChat has written the reply of the terminal chunk
\* and the callback has not run.
C30_Witness ==
  /\ fn = "contextedChat"
  /\ AtTerminalChunk
  /\ Len(store) = Len(base) + 2
  /\ store[Len(store)].message.role = "assistant"
  /\ it.cb = 0

\* The text on the output: what was written, piece after piece.
RECURSIVE SinkText(_)
SinkText(o) ==
  IF o = <<>> THEN <<>>
  ELSE SinkText(SubSeq(o, 1, Len(o) - 1)) \o o[Len(o)]

\* C31: the loop writes to the output the own content of every chunk it
\* receives, once, in the order of receipt and before it asks for the next
\* chunk; the content of the final chunk is replaced by the whole text only
\* after its own content was written. So the text on the output is the
\* text accumulated, and after a completed invocation it is the content of
\* the assistant row written.
C31_SinkGetsEachChunkOnce ==
  fn # "iterator" =>
    /\ Len(out) = Len(it.delivered)
    /\ Len(out) <= Len(srcLog)
    /\ it.pulls <= Len(out) + 1
    /\ \A k \in 1..Len(out) :
         /\ srcLog[k].type = "chunk"
         /\ out[k] = srcLog[k].chunk.content
    /\ SinkText(out) = fullContent
    /\ (AtTerminalChunk /\ it.held.done /\ fn \notin Invokers) =>
         /\ it.held.content = fullContent
         /\ out[Len(out)] = srcLog[Len(out)].chunk.content
    /\ (fn \in Orchestrators /\ pc = "done") =>
         \A k \in (Len(base) + 1)..Len(store) :
           store[k].message.role = "assistant" =>
             store[k].message.content = SinkText(out)

\* C31 witness: contextedChat completed on "a", "b" and a final chunk; the
\* output got "a", "b" and the empty content of the final chunk, and the
\* row written holds "ab".
C31_Witness ==
  /\ fn = "contextedChat"
  /\ pc = "done"
  /\ out = <<<<"a">>, <<"b">>, <<>>>>
  /\ SinkText(out) = <<"a", "b">>
  /\ store[Len(store)] = Doc("assistant", SinkText(out))

\* The invocation of contextedChat of logger.ts got past the assertions on
\* its prompt.
PastValidation ==
  /\ fn = "contextedChat"
  /\ invs > 0
  /\ prompt # <<>>

\* C32 as stated: after any invocations of contextedChat of logger.ts,
\* one after the other, every assistant row comes right after a user row,
\* the one of its own invocation, no two assistant rows follow each other,
\* and an invocation that got past validation has added two rows when it
\* completed and one row when it failed or the process ended.
C32_StoreKeepsPromptReplyPairs ==
  fn = "contextedChat" =>
    /\ \A k \in 1..Len(store) :
         store[k].message.role = "assistant" =>
           /\ k > 1
           /\ store[k - 1].message.role = "user"
           /\ k > Len(base) => (k = Len(base) + 2 /\ store[k - 1] = PromptDoc(prompt))
    /\ PastValidation =>
         /\ pc = "done" => Len(store) = Len(base) + 2
         /\ pc = "failed" => Len(store) = Len(base) + 1
         /\ (signal.aborted /\ pc \notin Ended) => Len(store) = Len(base) + 1

====
